---- MODULE Spec2Model ----
(***************************************************************************)
(* Model of the booking and notification route handlers of                *)
(* server/routes/bookings.js and of the NotificationBell component.       *)
(* Every request is a process that advances from one `await` of its       *)
(* handler to the next; the database rows are the shared state.  Requests *)
(* interleave at the awaits.  `res` holds the response sent by the step   *)
(* just taken, with the request and the locals of its handler, so that a  *)
(* property of a response is a state predicate.  The component is its     *)
(* state, its refs and its calls that have not settled; each of its       *)
(* handlers runs from an event or a settling call to its next `await`,    *)
(* and is rendered again before the next event.                           *)
(***************************************************************************)
EXTENDS Integers, Sequences, FiniteSets, TLC

(* ------------------------------ bounds -------------------------------- *)
NumSlots == 2
NumUsers == 2
NumTables == 2
MaxBookings == 2
NumNotifications == 3
MaxPathLen == 3
NumShown == 2
MaxMutations == 2
MaxMixedBookings == 1

(* ------------------------- program constants -------------------------- *)
MinGuests == 1
MaxGuests == 20
DefaultLimit == 50
MaxLimit == 100

Slots == 1..NumSlots
Users == 1..NumUsers
Tables == 1..NumTables
NotificationIds == 1..NumNotifications

\* restaurants rows: 1 and 2 are active, 3 exists but has is_active = 0
Restaurants == {1, 2, 3}
restaurants == [r \in Restaurants |-> [id |-> r, is_active |-> IF r = 3 THEN 0 ELSE 1]]

\* restaurant_tables rows: the columns no handler writes
TableRestaurant(t) == 2 - (t % 2)
TableCapacity(t) == t + 1

VARIABLES
    tables,         \* restaurant_tables.status, by table id
    bookings,       \* the bookings rows, in insertion order (id = index)
    notifications,  \* notifications.is_read, by notification id
    req,            \* the requests being served, by slot
    res,            \* the response sent by the step just taken, if any
    concurrent,     \* history: some request arrived while another was being served
    panel,          \* the NotificationBell component: its state, refs and timer
    net,            \* the calls of the component that have not settled, oldest first
    cache           \* the entry of apiCache for the notification-list query

serverVars == <<tables, bookings, notifications, req, res, concurrent>>
clientVars == <<panel, net, cache>>
vars == <<tables, bookings, notifications, req, res, concurrent, panel, net, cache>>

\* the result of a query that matches no row
NoRow == [id |-> 0, capacity |-> 0, table_id |-> 0, status |-> "none"]
NoData == [bookingId |-> 0, notifications |-> <<>>, unread_count |-> 0,
           total_count |-> 0, count |-> 0, booking |-> NoRow, bookings |-> {}]

\* a slot that serves no request; `writes` is the history of the statements
\* the request has run that change a row, `changes` the number of rows its
\* last UPDATE changed, and `follows` the number of rows changed by the
\* mark-all-read of the same user answered just before the request arrived
\* (-1 when the request does not follow one), `failed` the database call of
\* the request that was rejected; `method` and `path` are the request line
\* when the request came through the router
Idle == [kind |-> "none", pc |-> "idle", user |-> 0, method |-> "", path |-> <<>>,
         restaurantId |-> 0, tableId |-> 0, guests |-> 0, otherFieldsValid |-> TRUE,
         id |-> 0, cancelledOnArrival |-> FALSE, readOnArrival |-> 0,
         follows |-> -1, changes |-> 0, failed |-> "none",
         table |-> NoRow, booking |-> NoRow, bookingId |-> 0,
         limit |-> [kind |-> "absent", value |-> 0], limitInt |-> 0,
         unread_only |-> "absent",
         pending |-> {}, list |-> <<>>, unreadCount |-> 0, totalCount |-> 0,
         writes |-> <<>>, status |-> 0, message |-> "", data |-> NoData]

InFlight(s) == req[s].pc # "idle"
Quiet == \A s \in Slots : ~InFlight(s)
\* an arriving request is served in the first free slot
Free(s) == ~InFlight(s) /\ \A q \in Slots : q < s => InFlight(q)

\* res.status(code).json({message, data}) ends the handler of slot s, whose
\* request and locals are r
Respond(s, r, code, msg, data) ==
    /\ res' = [r EXCEPT !.pc = "done", !.status = code, !.message = msg, !.data = data]
    /\ req' = [req EXCEPT ![s] = Idle]
    /\ UNCHANGED concurrent
    /\ UNCHANGED clientVars

\* the handler of slot s goes on to its next await with locals r
Goto(s, r) ==
    /\ req' = [req EXCEPT ![s] = r]
    /\ res' = Idle
    /\ UNCHANGED concurrent
    /\ UNCHANGED clientVars

\* a request arrives and its handler runs up to its first await
Arrive(s, r) ==
    /\ Free(s)
    /\ req' = [req EXCEPT ![s] = r]
    /\ res' = Idle
    /\ concurrent' = (concurrent \/ ~Quiet)
    /\ UNCHANGED clientVars

\* a handler is invoked with the request r: it answers at once when r is
\* already answered, and runs up to its first await otherwise
Begin(s, r) ==
    IF r.pc = "done"
    THEN Free(s) /\ Respond(s, r, r.status, r.message, r.data)
    ELSE Arrive(s, r)

(* ----------------------------- createBooking -------------------------- *)

\* faulty variant: isInt({ min: 1 }) on guests, without the upper bound
bookingValidation_noMax(restaurantId, tableId, guests, otherFieldsValid) ==
    /\ restaurantId >= 1
    /\ tableId >= 1
    /\ guests >= MinGuests
    /\ otherFieldsValid
\* bookingValidation: the express-validator chain
bookingValidation(restaurantId, tableId, guests, otherFieldsValid) ==
    /\ restaurantId >= 1
    /\ tableId >= 1
    /\ guests >= MinGuests /\ guests <= MaxGuests
    /\ otherFieldsValid

\* SELECT id, name FROM restaurants WHERE id = ? AND is_active = 1
SelectRestaurant(restaurantId) ==
    IF restaurantId \in Restaurants /\ restaurants[restaurantId].is_active = 1
    THEN [NoRow EXCEPT !.id = restaurantId] ELSE NoRow

\* SELECT ... FROM restaurant_tables WHERE id = ? AND restaurant_id = ?
SelectTable(tableId, restaurantId) ==
    IF tableId \in Tables /\ TableRestaurant(tableId) = restaurantId
    THEN [NoRow EXCEPT !.id = tableId, !.capacity = TableCapacity(tableId),
                       !.status = tables[tableId]]
    ELSE NoRow

CreatesInFlight == Cardinality({s \in Slots : InFlight(s) /\ req[s].kind = "createBooking"})

\* request bodies: the well-formed ones, and one with each field out of range
WellFormedBodies ==
    [restaurantId : {1, 2, 3}, tableId : 1..(NumTables + 1), guests : {2, 3},
     otherFieldsValid : {TRUE}]
MalformedBodies ==
    LET b == [restaurantId |-> 1, tableId |-> 1, guests |-> 2, otherFieldsValid |-> TRUE]
    IN  {[b EXCEPT !.restaurantId = 0], [b EXCEPT !.tableId = 0],
         [b EXCEPT !.guests = MinGuests - 1], [b EXCEPT !.guests = MaxGuests + 1],
         [b EXCEPT !.otherFieldsValid = FALSE]}
BookingBodies == WellFormedBodies \cup MalformedBodies

\* router.post('/'): validation, then the restaurant query is issued
createBooking_request(userId, restaurantId, tableId, guests, otherFieldsValid) ==
    LET r == [Idle EXCEPT !.kind = "createBooking", !.user = userId,
                          !.restaurantId = restaurantId, !.tableId = tableId,
                          !.guests = guests, !.otherFieldsValid = otherFieldsValid]
    IN  IF ~bookingValidation(restaurantId, tableId, guests, otherFieldsValid)
        THEN [r EXCEPT !.pc = "done", !.status = 400, !.message = "Validation failed"]
        ELSE [r EXCEPT !.pc = "getRestaurant"]

createBooking_start(s, userId, restaurantId, tableId, guests, otherFieldsValid) ==
    /\ Len(bookings) + CreatesInFlight < MaxBookings
    /\ Begin(s, createBooking_request(userId, restaurantId, tableId, guests,
                                      otherFieldsValid))
    /\ UNCHANGED <<tables, bookings, notifications>>

createBooking_getRestaurant(s) ==
    /\ req[s].kind = "createBooking" /\ req[s].pc = "getRestaurant"
    /\ LET restaurant == SelectRestaurant(req[s].restaurantId)
       IN  IF restaurant = NoRow
           THEN Respond(s, req[s], 404, "Restaurant not found", NoData)
           ELSE Goto(s, [req[s] EXCEPT !.pc = "getTable"])
    /\ UNCHANGED <<tables, bookings, notifications>>

\* faulty variant: the comparison is off by one
CapacityExceeded_offByOne(guests, table) == guests > table.capacity + 1
\* if (guests > table.capacity)
CapacityExceeded(guests, table) == guests > table.capacity

\* faulty variant: the status is not looked at
TableAvailable_unchecked(table) == TRUE
\* if (table.status !== 'available') is the negation of this
TableAvailable(table) == table.status = "available"

createBooking_getTable(s) ==
    /\ req[s].kind = "createBooking" /\ req[s].pc = "getTable"
    /\ LET table == SelectTable(req[s].tableId, req[s].restaurantId)
           r == [req[s] EXCEPT !.table = table]
       IN  IF table = NoRow
           THEN Respond(s, r, 404, "Table not found", NoData)
           ELSE IF CapacityExceeded(r.guests, table)
           THEN Respond(s, r, 400, "Table capacity exceeded", NoData)
           ELSE IF ~TableAvailable(table)
           THEN Respond(s, r, 400, "Table is not available", NoData)
           ELSE Goto(s, [r EXCEPT !.pc = "insertBooking"])
    /\ UNCHANGED <<tables, bookings, notifications>>

\* faulty variant: the row is inserted with another status
InsertBooking_pending(userId, tableId) ==
    [user_id |-> userId, table_id |-> tableId, status |-> "pending"]
\* INSERT INTO bookings (...) VALUES (..., 'confirmed')
InsertBooking(userId, tableId) ==
    [user_id |-> userId, table_id |-> tableId, status |-> "confirmed"]

createBooking_insert(s) ==
    /\ req[s].kind = "createBooking" /\ req[s].pc = "insertBooking"
    /\ LET row == InsertBooking(req[s].user, req[s].tableId)
       IN  /\ bookings' = Append(bookings, row)
           /\ Goto(s, [req[s] EXCEPT !.pc = "updateTable",
                                     !.bookingId = Len(bookings) + 1,
                                     !.writes = Append(@, [op |-> "insert booking",
                                                           id |-> Len(bookings) + 1,
                                                           row |-> row])])
    /\ UNCHANGED <<tables, notifications>>

\* faulty variant: the booking is answered without the table being reserved
createBooking_updateTable_skipped(s) ==
    /\ req[s].kind = "createBooking" /\ req[s].pc = "updateTable"
    /\ Respond(s, req[s], 201, "Booking created successfully",
               [NoData EXCEPT !.bookingId = req[s].bookingId])
    /\ UNCHANGED <<tables, bookings, notifications>>
\* UPDATE restaurant_tables SET status = "reserved" WHERE id = ?
createBooking_updateTable(s) ==
    /\ req[s].kind = "createBooking" /\ req[s].pc = "updateTable"
    /\ tables' = [tables EXCEPT ![req[s].tableId] = "reserved"]
    /\ Respond(s, [req[s] EXCEPT !.writes = Append(@, [op |-> "update table",
                                                       id |-> req[s].tableId,
                                                       row |-> "reserved"])],
               201, "Booking created successfully",
               [NoData EXCEPT !.bookingId = req[s].bookingId])
    /\ UNCHANGED <<bookings, notifications>>

(* ----------------------------- cancelBooking -------------------------- *)

BookingIdChoices == 1..(MaxBookings + 1)

\* faulty variant: the query lacks AND user_id = ?
SelectBooking_anyUser(id, userId) ==
    IF id \in 1..Len(bookings)
    THEN [NoRow EXCEPT !.id = id, !.table_id = bookings[id].table_id,
                       !.status = bookings[id].status]
    ELSE NoRow
\* SELECT id, table_id, status FROM bookings WHERE id = ? AND user_id = ?
SelectBooking(id, userId) ==
    IF id \in 1..Len(bookings) /\ bookings[id].user_id = userId
    THEN [NoRow EXCEPT !.id = id, !.table_id = bookings[id].table_id,
                       !.status = bookings[id].status]
    ELSE NoRow

\* router.put('/:id/cancel'): the booking query is issued
cancelBooking_request(userId, id) ==
    [Idle EXCEPT !.kind = "cancelBooking", !.user = userId,
                 !.id = id, !.pc = "getBooking",
                 !.cancelledOnArrival = (SelectBooking(id, userId).status = "cancelled")]

cancelBooking_start(s, userId, id) ==
    /\ Begin(s, cancelBooking_request(userId, id))
    /\ UNCHANGED <<tables, bookings, notifications>>

\* faulty variant: the status is not looked at
AlreadyCancelled_unchecked(booking) == FALSE
\* if (booking.status === 'cancelled')
AlreadyCancelled(booking) == booking.status = "cancelled"

cancelBooking_getBooking(s) ==
    /\ req[s].kind = "cancelBooking" /\ req[s].pc = "getBooking"
    /\ LET booking == SelectBooking(req[s].id, req[s].user)
           r == [req[s] EXCEPT !.booking = booking]
       IN  IF booking = NoRow
           THEN Respond(s, r, 404, "Booking not found", NoData)
           ELSE IF AlreadyCancelled(booking)
           THEN Respond(s, r, 400, "Booking is already cancelled", NoData)
           ELSE Goto(s, [r EXCEPT !.pc = "updateBooking"])
    /\ UNCHANGED <<tables, bookings, notifications>>

\* faulty variant: the update matches every booking of the table
CancelRow_allOfTable(id) ==
    [b \in 1..Len(bookings) |->
        IF bookings[b].table_id = bookings[id].table_id
        THEN [bookings[b] EXCEPT !.status = "cancelled"] ELSE bookings[b]]
\* faulty variant: the update flips the status of the row
CancelRow_toggle(id) ==
    [bookings EXCEPT ![id].status = IF @ = "cancelled" THEN "confirmed" ELSE "cancelled"]
\* UPDATE bookings SET status = "cancelled", updated_at = CURRENT_TIMESTAMP WHERE id = ?
CancelRow(id) == [bookings EXCEPT ![id].status = "cancelled"]

cancelBooking_updateBooking(s) ==
    /\ req[s].kind = "cancelBooking" /\ req[s].pc = "updateBooking"
    /\ bookings' = CancelRow(req[s].id)
    /\ Goto(s, [req[s] EXCEPT !.pc = "updateTable",
                              !.writes = Append(@, [op |-> "update booking",
                                                    id |-> req[s].id,
                                                    row |-> "cancelled"])])
    /\ UNCHANGED <<tables, notifications>>

\* faulty variant: the table is left as it is
ReleaseTable_skipped(tableId) == tables
\* UPDATE restaurant_tables SET status = "available" WHERE id = ?
ReleaseTable(tableId) == [tables EXCEPT ![tableId] = "available"]

cancelBooking_updateTable(s) ==
    /\ req[s].kind = "cancelBooking" /\ req[s].pc = "updateTable"
    /\ tables' = ReleaseTable(req[s].booking.table_id)
    /\ Respond(s, [req[s] EXCEPT !.writes = Append(@, [op |-> "update table",
                                                       id |-> req[s].booking.table_id,
                                                       row |-> "available"])],
               200, "Booking cancelled successfully", NoData)
    /\ UNCHANGED <<bookings, notifications>>

(* ---------------------------- getNotifications ------------------------ *)

\* notifications.user_id: a column no handler writes
NotificationUser(n) == ((n - 1) % NumUsers) + 1

Min(a, b) == IF a < b THEN a ELSE b

\* the limit query parameter: absent, not a number, or an integer
LimitChoices ==
    {[kind |-> "absent", value |-> 0], [kind |-> "text", value |-> 0]}
        \cup {[kind |-> "int", value |-> v] : v \in {-1, 0, 1, 200}}
UnreadOnlyChoices == {"absent", "true", "false"}
\* the choices that differ in their effect on NumNotifications rows
FewLimitChoices == {[kind |-> "absent", value |-> 0], [kind |-> "int", value |-> 1]}
FewUnreadOnlyChoices == {"absent", "true"}

\* const { limit = 50 } = req.query; Math.min(parseInt(limit) || 50, 100)
\* parseInt of text is NaN; NaN and 0 are falsy
LimitInt(limit) ==
    LET parsed == IF limit.kind = "absent" THEN DefaultLimit
                  ELSE IF limit.kind = "text" THEN 0
                  ELSE limit.value
    IN  Min(IF parsed = 0 THEN DefaultLimit ELSE parsed, MaxLimit)

\* ORDER BY n.created_at DESC: ids are handed out in creation order
RECURSIVE Descending(_)
Descending(S) ==
    IF S = {} THEN <<>>
    ELSE LET m == CHOOSE x \in S : \A y \in S : y <= x
         IN  <<m>> \o Descending(S \ {m})

\* LIMIT ?: a negative limit is no limit
Limit(rows, n) == IF n < 0 THEN rows ELSE SubSeq(rows, 1, Min(n, Len(rows)))

\* faulty variant: the unread_only filter is never appended to the query
SelectNotifications_unfiltered(userId, unread_only, limitInt) ==
    LET ids == Descending({n \in NotificationIds : NotificationUser(n) = userId})
    IN  Limit([i \in 1..Len(ids) |-> [id |-> ids[i], is_read |-> notifications[ids[i]]]],
              limitInt)
\* SELECT ... FROM notifications n ... WHERE n.user_id = ? [AND n.is_read = 0]
\* ORDER BY n.created_at DESC LIMIT ?
SelectNotifications(userId, unread_only, limitInt) ==
    LET ids == Descending({n \in NotificationIds :
                   /\ NotificationUser(n) = userId
                   /\ (unread_only = "true" => notifications[n] = 0)})
    IN  Limit([i \in 1..Len(ids) |-> [id |-> ids[i], is_read |-> notifications[ids[i]]]],
              limitInt)

\* faulty variant: the query lacks user_id = ?
CountUnread_anyUser(userId) ==
    Cardinality({n \in NotificationIds : notifications[n] = 0})
\* SELECT COUNT(*) as count FROM notifications WHERE user_id = ? AND is_read = 0
CountUnread(userId) ==
    Cardinality({n \in NotificationIds : NotificationUser(n) = userId /\ notifications[n] = 0})

\* SELECT COUNT(*) as count FROM notifications WHERE user_id = ?
CountTotal(userId) ==
    Cardinality({n \in NotificationIds : NotificationUser(n) = userId})

\* router.get('/notifications'): the three queries are issued together
getNotifications_request(userId, limit, unread_only) ==
    [Idle EXCEPT !.kind = "getNotifications", !.user = userId,
                 !.limit = limit, !.limitInt = LimitInt(limit),
                 !.unread_only = unread_only, !.pc = "queries",
                 !.pending = {"list", "unread", "total"},
                 !.follows = IF res.kind = "markAllRead" /\ res.user = userId
                                /\ res.status = 200
                             THEN res.changes ELSE -1]

getNotifications_start(s, userId, limit, unread_only) ==
    /\ Begin(s, getNotifications_request(userId, limit, unread_only))
    /\ UNCHANGED <<tables, bookings, notifications>>

\* Promise.all resolves once the last of the three queries has: the handler
\* then builds the response
getNotifications_join(s, r) ==
    IF r.pending = {}
    THEN Respond(s, r, 200, "Notifications retrieved successfully",
                 [NoData EXCEPT !.notifications = r.list,
                                !.unread_count = r.unreadCount,
                                !.total_count = r.totalCount])
    ELSE Goto(s, r)

getNotifications_list(s) ==
    /\ req[s].kind = "getNotifications" /\ "list" \in req[s].pending
    /\ getNotifications_join(s, [req[s] EXCEPT
           !.list = SelectNotifications(req[s].user, req[s].unread_only, req[s].limitInt),
           !.pending = @ \ {"list"}])
    /\ UNCHANGED <<tables, bookings, notifications>>

getNotifications_unread(s) ==
    /\ req[s].kind = "getNotifications" /\ "unread" \in req[s].pending
    /\ getNotifications_join(s, [req[s] EXCEPT
           !.unreadCount = CountUnread(req[s].user), !.pending = @ \ {"unread"}])
    /\ UNCHANGED <<tables, bookings, notifications>>

getNotifications_total(s) ==
    /\ req[s].kind = "getNotifications" /\ "total" \in req[s].pending
    /\ getNotifications_join(s, [req[s] EXCEPT
           !.totalCount = CountTotal(req[s].user), !.pending = @ \ {"total"}])
    /\ UNCHANGED <<tables, bookings, notifications>>

(* ----------------------------- getUnreadCount ------------------------- *)

\* faulty variant: the query lacks AND is_read = 0
LegacyCountUnread_anyFlag(userId) ==
    Cardinality({n \in NotificationIds : NotificationUser(n) = userId})
\* the query of the legacy endpoint:
\* SELECT COUNT(*) as count FROM notifications WHERE user_id = ? AND is_read = 0
LegacyCountUnread(userId) ==
    Cardinality({n \in NotificationIds : notifications[n] = 0 /\ NotificationUser(n) = userId})

\* router.get('/notifications/unread-count')
getUnreadCount_request(userId) ==
    [Idle EXCEPT !.kind = "getUnreadCount", !.user = userId, !.pc = "count"]

getUnreadCount_start(s, userId) ==
    /\ Begin(s, getUnreadCount_request(userId))
    /\ UNCHANGED <<tables, bookings, notifications>>

getUnreadCount_count(s) ==
    /\ req[s].kind = "getUnreadCount" /\ req[s].pc = "count"
    /\ Respond(s, req[s], 200, "Unread notification count retrieved",
               [NoData EXCEPT !.count = LegacyCountUnread(req[s].user)])
    /\ UNCHANGED <<tables, bookings, notifications>>

(* ------------------------------ markAllRead --------------------------- *)

\* router.put('/notifications/mark-all-read')
markAllRead_request(userId) ==
    [Idle EXCEPT !.kind = "markAllRead", !.user = userId, !.pc = "update"]

markAllRead_start(s, userId) ==
    /\ Begin(s, markAllRead_request(userId))
    /\ UNCHANGED <<tables, bookings, notifications>>

\* faulty variant: SET is_read = 1 - is_read, on all the rows of the user
MarkAllRows_flipped(userId) ==
    [n \in NotificationIds |->
        IF NotificationUser(n) = userId THEN 1 - notifications[n] ELSE notifications[n]]
\* faulty variant: the statement lacks user_id = ?
MarkAllRows_anyUser(userId) == [n \in NotificationIds |-> 1]
\* UPDATE notifications SET is_read = 1 WHERE user_id = ? AND is_read = 0
MarkAllRows(userId) ==
    [n \in NotificationIds |->
        IF NotificationUser(n) = userId /\ notifications[n] = 0 THEN 1 ELSE notifications[n]]

markAllRead_update(s) ==
    /\ req[s].kind = "markAllRead" /\ req[s].pc = "update"
    /\ notifications' = MarkAllRows(req[s].user)
    /\ Respond(s, [req[s] EXCEPT !.writes = Append(@, [op |-> "update notifications",
                                                       id |-> 0, row |-> 1]),
                                  !.changes = Cardinality({n \in NotificationIds :
                                                  notifications[n] # notifications'[n]})],
               200, "All notifications marked as read", NoData)
    /\ UNCHANGED <<tables, bookings>>

(* -------------------------------- markRead ---------------------------- *)

NotificationIdChoices == 1..(NumNotifications + 1)

\* faulty variant: the query lacks AND user_id = ?
SelectNotification_anyUser(id, userId) ==
    IF id \in NotificationIds THEN [NoRow EXCEPT !.id = id] ELSE NoRow
\* SELECT id FROM notifications WHERE id = ? AND user_id = ?
SelectNotification(id, userId) ==
    IF id \in NotificationIds /\ NotificationUser(id) = userId
    THEN [NoRow EXCEPT !.id = id] ELSE NoRow

\* router.put('/notifications/:id/read'): the notification query is issued
markRead_request(userId, id) ==
    [Idle EXCEPT !.kind = "markRead", !.user = userId, !.id = id,
                 !.pc = "getNotification",
                 !.readOnArrival = IF id \in NotificationIds THEN notifications[id] ELSE 0]

markRead_start(s, userId, id) ==
    /\ Begin(s, markRead_request(userId, id))
    /\ UNCHANGED <<tables, bookings, notifications>>

markRead_getNotification(s) ==
    /\ req[s].kind = "markRead" /\ req[s].pc = "getNotification"
    /\ LET notification == SelectNotification(req[s].id, req[s].user)
       IN  IF notification = NoRow
           THEN Respond(s, req[s], 404, "Notification not found", NoData)
           ELSE Goto(s, [req[s] EXCEPT !.pc = "updateNotification"])
    /\ UNCHANGED <<tables, bookings, notifications>>

\* faulty variant: the flag is flipped
MarkRow_toggle(id) == [notifications EXCEPT ![id] = 1 - @]
\* UPDATE notifications SET is_read = 1 WHERE id = ?
MarkRow(id) == [notifications EXCEPT ![id] = 1]

markRead_updateNotification(s) ==
    /\ req[s].kind = "markRead" /\ req[s].pc = "updateNotification"
    /\ notifications' = MarkRow(req[s].id)
    /\ Respond(s, [req[s] EXCEPT !.writes = Append(@, [op |-> "update notification",
                                                       id |-> req[s].id, row |-> 1,
                                                       old |-> notifications[req[s].id]])],
               200, "Notification marked as read", NoData)
    /\ UNCHANGED <<tables, bookings>>

(* ----------------------------- listBookings --------------------------- *)

\* SELECT b.id, ..., b.status, ..., rt.capacity as table_capacity FROM bookings b
\* JOIN restaurants r ... JOIN restaurant_tables rt ... WHERE b.user_id = ?
\* (the rows without their order: date and time are not modelled)
SelectBookings(userId) ==
    {[NoRow EXCEPT !.id = b, !.table_id = bookings[b].table_id,
                   !.status = bookings[b].status,
                   !.capacity = TableCapacity(bookings[b].table_id)] :
        b \in {i \in 1..Len(bookings) : bookings[i].user_id = userId}}

\* router.get('/'): the bookings query is issued
listBookings_request(userId) ==
    [Idle EXCEPT !.kind = "listBookings", !.user = userId, !.pc = "getBookings"]

listBookings_getBookings(s) ==
    /\ req[s].kind = "listBookings" /\ req[s].pc = "getBookings"
    /\ Respond(s, req[s], 200, "Bookings retrieved successfully",
               [NoData EXCEPT !.bookings = SelectBookings(req[s].user)])
    /\ UNCHANGED <<tables, bookings, notifications>>

(* ------------------------------ getBooking ---------------------------- *)

\* SELECT b.id, ..., b.status, ..., rt.capacity as table_capacity FROM bookings b
\* JOIN ... WHERE b.id = ? AND b.user_id = ?
SelectBookingDetails(id, userId) ==
    IF id \in 1..Len(bookings) /\ bookings[id].user_id = userId
    THEN [NoRow EXCEPT !.id = id, !.table_id = bookings[id].table_id,
                       !.status = bookings[id].status,
                       !.capacity = TableCapacity(bookings[id].table_id)]
    ELSE NoRow

\* router.get('/:id'): the booking query is issued
getBooking_request(userId, id) ==
    [Idle EXCEPT !.kind = "getBooking", !.user = userId, !.id = id, !.pc = "getDetails"]

getBooking_getDetails(s) ==
    /\ req[s].kind = "getBooking" /\ req[s].pc = "getDetails"
    /\ LET booking == SelectBookingDetails(req[s].id, req[s].user)
       IN  IF booking = NoRow
           THEN Respond(s, req[s], 404, "Booking not found", NoData)
           ELSE Respond(s, [req[s] EXCEPT !.booking = booking], 200,
                        "Booking details retrieved successfully",
                        [NoData EXCEPT !.booking = booking])
    /\ UNCHANGED <<tables, bookings, notifications>>

(* -------------------------------- router ------------------------------ *)

\* faulty variant: router.get('/:id') is registered ahead of the notification
\* routes
Routes_genericFirst ==
    << [method |-> "POST", pattern |-> <<>>, handler |-> "createBooking"],
       [method |-> "GET", pattern |-> <<":id">>, handler |-> "getBooking"],
       [method |-> "GET", pattern |-> <<"notifications">>, handler |-> "getNotifications"],
       [method |-> "GET", pattern |-> <<"notifications", "unread-count">>,
        handler |-> "getUnreadCount"],
       [method |-> "PUT", pattern |-> <<"notifications", "mark-all-read">>,
        handler |-> "markAllRead"],
       [method |-> "PUT", pattern |-> <<"notifications", ":id", "read">>,
        handler |-> "markRead"],
       [method |-> "GET", pattern |-> <<>>, handler |-> "listBookings"],
       [method |-> "PUT", pattern |-> <<":id", "cancel">>, handler |-> "cancelBooking"] >>
\* the routes of the router, in the order of their registration; a path is the
\* sequence of its segments below the mount point
Routes ==
    << [method |-> "POST", pattern |-> <<>>, handler |-> "createBooking"],
       [method |-> "GET", pattern |-> <<"notifications">>, handler |-> "getNotifications"],
       [method |-> "GET", pattern |-> <<"notifications", "unread-count">>,
        handler |-> "getUnreadCount"],
       [method |-> "PUT", pattern |-> <<"notifications", "mark-all-read">>,
        handler |-> "markAllRead"],
       [method |-> "PUT", pattern |-> <<"notifications", ":id", "read">>,
        handler |-> "markRead"],
       [method |-> "GET", pattern |-> <<>>, handler |-> "listBookings"],
       [method |-> "GET", pattern |-> <<":id">>, handler |-> "getBooking"],
       [method |-> "PUT", pattern |-> <<":id", "cancel">>, handler |-> "cancelBooking"] >>

\* a pattern matches a path of its length whose segments are those of the
\* pattern, any segment standing for :id
Matches(pattern, path) ==
    /\ Len(pattern) = Len(path)
    /\ \A i \in 1..Len(pattern) : pattern[i] = ":id" \/ pattern[i] = path[i]

\* req.params.id
Param(pattern, path) ==
    LET at == {i \in 1..Len(pattern) : pattern[i] = ":id"}
    IN  IF at = {} THEN "" ELSE path[CHOOSE i \in at : TRUE]

\* the router hands a request to the first registered route that matches it
Dispatch(method, path) ==
    LET hits == {i \in 1..Len(Routes) :
                    Routes[i].method = method /\ Matches(Routes[i].pattern, path)}
    IN  IF hits = {} THEN [handler |-> "none", id |-> ""]
        ELSE LET first == CHOOSE i \in hits : \A j \in hits : i <= j
             IN  [handler |-> Routes[first].handler,
                  id |-> Param(Routes[first].pattern, path)]

\* WHERE id = ? with the text of :id: the text of an integer is compared as
\* that integer, and any other text equals no id
ToId(param) ==
    CASE param = "1" -> 1
      [] param = "2" -> 2
      [] param = "9" -> 9
      [] OTHER -> 0

Methods == {"GET", "POST", "PUT"}
Segments == {"notifications", "unread-count", "mark-all-read", "read", "cancel",
             "1", "2", "9"}
Paths == UNION {[1..n -> Segments] : n \in 0..MaxPathLen}

\* the request lines that match a route, each with the route it is handed to
RoutedLines ==
    {l \in {[method |-> m, path |-> p, to |-> Dispatch(m, p)] : m \in Methods, p \in Paths} :
        l.to.handler # "none"}

\* the handler of a route is invoked for the request line method, path
routed(s, method, path, r) ==
    /\ Begin(s, [r EXCEPT !.method = method, !.path = path])
    /\ UNCHANGED <<tables, bookings, notifications>>

\* a request arrives at the router; a request that matches no route is left to
\* the application
RouteStart(s) ==
    \E u \in Users, l \in RoutedLines :
        LET m == l.method
            p == l.path
            d == l.to
        IN  \/ /\ d.handler = "createBooking"
               /\ Len(bookings) + CreatesInFlight < MaxBookings
               /\ \E b \in BookingBodies :
                     routed(s, m, p, createBooking_request(u, b.restaurantId, b.tableId,
                                                           b.guests, b.otherFieldsValid))
            \/ /\ d.handler = "getNotifications"
               /\ \E limit \in FewLimitChoices, f \in FewUnreadOnlyChoices :
                     routed(s, m, p, getNotifications_request(u, limit, f))
            \/ /\ d.handler = "getUnreadCount"
               /\ routed(s, m, p, getUnreadCount_request(u))
            \/ /\ d.handler = "markAllRead"
               /\ routed(s, m, p, markAllRead_request(u))
            \/ /\ d.handler = "markRead"
               /\ routed(s, m, p, markRead_request(u, ToId(d.id)))
            \/ /\ d.handler = "listBookings"
               /\ routed(s, m, p, listBookings_request(u))
            \/ /\ d.handler = "getBooking"
               /\ routed(s, m, p, getBooking_request(u, ToId(d.id)))
            \/ /\ d.handler = "cancelBooking"
               /\ routed(s, m, p, cancelBooking_request(u, ToId(d.id)))

(* ------------------------- NotificationBell --------------------------- *)

ShownIds == 1..NumShown

Unread(list) == Cardinality({i \in 1..Len(list) : list[i].is_read = 0})

\* the lists a response of GET /bookings/notifications?limit=10 may carry, and
\* the data of such a response, the unread rows all being in the list
Lists ==
    {<<>>} \cup {[i \in ShownIds |-> [id |-> i, is_read |-> f[i]]] : f \in [ShownIds -> {0, 1}]}
Payloads ==
    {[notifications |-> l, unread_count |-> Unread(l)] : l \in Lists}
NoPayload == [notifications |-> <<>>, unread_count |-> 0]

\* how a call settles: apiCall resolves with a body whose success is true
\* ("ok") or not ("notOk"), or it throws
NoOutcome == [kind |-> "none", data |-> NoPayload]
LoadOutcomes ==
    {[kind |-> "ok", data |-> d] : d \in Payloads}
        \cup {[kind |-> "notOk", data |-> NoPayload], [kind |-> "thrown", data |-> NoPayload]}
MutationOutcomes == {"resolved", "thrown"}

\* the component before it is mounted: useState and useRef initial values;
\* `event` is the handler that ran last and `loaded` the data of the last
\* successful load
NewPanel ==
    [lifecycle |-> "new", timer |-> FALSE,
     notifications |-> <<>>, unreadCount |-> 0, isOpen |-> FALSE, isLoading |-> FALSE,
     loadingNotificationsRef |-> FALSE,
     event |-> "none", loaded |-> NoPayload]

\* a call that has not settled: `via` tells whether a network call was made
\* for it, `by` the event that made it; a mutation keeps its snapshot
Call(op, id, via, outcome, p) ==
    [op |-> op, id |-> id, via |-> via, outcome |-> outcome,
     by |-> IF op = "load" THEN p.event ELSE op,
     previousNotifications |-> p.notifications, previousUnreadCount |-> p.unreadCount]

Remove(seq, i) == [j \in 1..(Len(seq) - 1) |-> IF j < i THEN seq[j] ELSE seq[j + 1]]

LoadsInFlight == {i \in 1..Len(net) : net[i].op = "load"}
NetworkLoads(n) == Cardinality({i \in 1..Len(n) : n[i].op = "load" /\ n[i].via = "network"})
MutationsInFlight == {i \in 1..Len(net) : net[i].op \in {"markAsRead", "markAllAsRead"}}

\* apiCache: the entry of a key is absent ("none"), the promise of a call that
\* has not settled ("pending"), or a response, whose body is left open
NoCache == "none"

\* apiCache.invalidatePattern: the cached responses of the matching keys go
InvalidatePattern(k) == IF k = "response" THEN NoCache ELSE k

\* apiCache.dedupe: a cached response is returned, the promise of a call that
\* has not settled is shared, and otherwise the callback makes the call
dedupe(n, k, p) ==
    CASE k = "response" ->
            [net |-> Append(n, Call("load", 0, "cache", NoOutcome, p)), cache |-> k]
      [] k = "pending" ->
            [net |-> Append(n, Call("load", 0, "pending", NoOutcome, p)), cache |-> k]
      [] OTHER ->
            [net |-> Append(n, Call("load", 0, "network", NoOutcome, p)),
             cache |-> "pending"]

\* faulty variant: no guard and no dedupe, every trigger calls apiCall
loadNotifications_direct(p, n, k) ==
    [panel |-> [p EXCEPT !.loadingNotificationsRef = TRUE, !.isLoading = TRUE],
     net |-> Append(n, Call("load", 0, "network", NoOutcome, p)),
     cache |-> k]
\* loadNotifications up to its await: nothing happens while a load has not
\* settled
loadNotifications(p, n, k) ==
    IF p.loadingNotificationsRef
    THEN [panel |-> p, net |-> n, cache |-> k]
    ELSE LET d == dedupe(n, k, p)
         IN  [panel |-> [p EXCEPT !.loadingNotificationsRef = TRUE, !.isLoading = TRUE],
              net |-> d.net, cache |-> d.cache]

Becomes(c) == panel' = c.panel /\ net' = c.net /\ cache' = c.cache

\* useEffect at mount: the first load, then the interval is set
mount ==
    /\ panel.lifecycle = "new"
    /\ Becomes(loadNotifications([panel EXCEPT !.lifecycle = "mounted", !.timer = TRUE,
                                               !.event = "mount"], net, cache))
    /\ UNCHANGED serverVars

\* faulty variant: the cleanup leaves the interval running
unmount_timerKept ==
    /\ panel.lifecycle = "mounted"
    /\ panel' = [panel EXCEPT !.lifecycle = "unmounted", !.event = "unmount"]
    /\ UNCHANGED <<net, cache>>
    /\ UNCHANGED serverVars
\* the cleanup of the effects: clearInterval and removeEventListener
unmount ==
    /\ panel.lifecycle = "mounted"
    /\ panel' = [panel EXCEPT !.lifecycle = "unmounted", !.timer = FALSE, !.event = "unmount"]
    /\ UNCHANGED <<net, cache>>
    /\ UNCHANGED serverVars

\* the callback of setInterval
tick ==
    /\ panel.timer
    /\ Becomes(loadNotifications([panel EXCEPT !.event = "tick"], net,
                                 InvalidatePattern(cache)))
    /\ UNCHANGED serverVars

\* faulty variant: the click that opens the panel loads without invalidating
handleBellClick_cached ==
    /\ panel.lifecycle = "mounted"
    /\ IF ~panel.isOpen
       THEN Becomes(loadNotifications([panel EXCEPT !.isOpen = TRUE, !.event = "open"],
                                      net, cache))
       ELSE /\ panel' = [panel EXCEPT !.isOpen = FALSE, !.event = "close"]
            /\ UNCHANGED <<net, cache>>
    /\ UNCHANGED serverVars
\* setIsOpen(!isOpen), and when the panel was closed the cache entries of the
\* notification endpoints are invalidated and loadNotifications is called
handleBellClick ==
    /\ panel.lifecycle = "mounted"
    /\ IF ~panel.isOpen
       THEN Becomes(loadNotifications([panel EXCEPT !.isOpen = TRUE, !.event = "open"],
                                      net, InvalidatePattern(cache)))
       ELSE /\ panel' = [panel EXCEPT !.isOpen = FALSE, !.event = "close"]
            /\ UNCHANGED <<net, cache>>
    /\ UNCHANGED serverVars

\* the X button of the open panel
closeButton ==
    /\ panel.lifecycle = "mounted" /\ panel.isOpen
    /\ panel' = [panel EXCEPT !.isOpen = FALSE, !.event = "close"]
    /\ UNCHANGED <<net, cache>>
    /\ UNCHANGED serverVars

handleClickOutside ==
    /\ panel.lifecycle = "mounted"
    /\ panel' = [panel EXCEPT !.isOpen = FALSE, !.event = "close"]
    /\ UNCHANGED <<net, cache>>
    /\ UNCHANGED serverVars

\* prev.map(n => n.id === notificationId ? { ...n, is_read: 1 } : n)
MarkOne(list, id) ==
    [i \in 1..Len(list) |-> IF list[i].id = id THEN [list[i] EXCEPT !.is_read = 1]
                                               ELSE list[i]]
\* prev.map(n => ({ ...n, is_read: 1 }))
MarkEvery(list) == [i \in 1..Len(list) |-> [list[i] EXCEPT !.is_read = 1]]

\* markAsRead up to its await, from a click on an unread row of the list shown
markAsRead(id) ==
    /\ panel.lifecycle = "mounted" /\ panel.isOpen /\ ~panel.isLoading
    /\ \E i \in 1..Len(panel.notifications) :
          panel.notifications[i].id = id /\ panel.notifications[i].is_read = 0
    /\ Cardinality(MutationsInFlight) < MaxMutations
    /\ panel' = [panel EXCEPT !.notifications = MarkOne(@, id),
                              !.unreadCount = IF @ - 1 < 0 THEN 0 ELSE @ - 1,
                              !.event = "markAsRead"]
    /\ net' = Append(net, Call("markAsRead", id, "network", NoOutcome, panel))
    /\ UNCHANGED cache
    /\ UNCHANGED serverVars

\* markAllAsRead up to its await, from a click on the button shown while the
\* unread count is positive
markAllAsRead ==
    /\ panel.lifecycle = "mounted" /\ panel.isOpen /\ panel.unreadCount > 0
    /\ Cardinality(MutationsInFlight) < MaxMutations
    /\ panel' = [panel EXCEPT !.notifications = MarkEvery(@), !.unreadCount = 0,
                              !.event = "markAllAsRead"]
    /\ net' = Append(net, Call("markAllAsRead", 0, "network", NoOutcome, panel))
    /\ UNCHANGED cache
    /\ UNCHANGED serverVars

\* if (response && response.success && response.data)
LoadSucceeded(p, data) ==
    [p EXCEPT !.notifications = data.notifications, !.unreadCount = data.unread_count,
              !.loaded = data]
\* faulty variant: the state is left as it is
LoadFailed_kept(p) == p
\* the else branch and the catch block
LoadFailed(p) == [p EXCEPT !.notifications = <<>>, !.unreadCount = 0]
\* faulty variant: the finally block resets the indicator and not the ref
LoadFinally_refKept(p) == [p EXCEPT !.isLoading = FALSE]
\* the finally block
LoadFinally(p) == [p EXCEPT !.isLoading = FALSE, !.loadingNotificationsRef = FALSE]

LoadSettled(p, outcome) ==
    CASE outcome.kind = "ok" -> LoadFinally([LoadSucceeded(p, outcome.data) EXCEPT
                                                !.event = "loaded"])
      [] outcome.kind = "notOk" -> LoadFinally([LoadFailed(p) EXCEPT !.event = "loadFailed"])
      [] OTHER -> LoadFinally([LoadFailed(p) EXCEPT !.event = "loadThrown"])

\* the call of the load net[i] settles and loadNotifications runs to its end;
\* the entry of apiCache takes the response, and the loads that share the
\* promise get its outcome
loadNotifications_settled(i) ==
    /\ net[i].op = "load"
    /\ CASE net[i].via = "network" ->
               \E outcome \in LoadOutcomes :
                   /\ panel' = LoadSettled(panel, outcome)
                   /\ net' = Remove([j \in 1..Len(net) |->
                                        IF net[j].via = "pending"
                                        THEN [net[j] EXCEPT !.via = "shared",
                                                            !.outcome = outcome]
                                        ELSE net[j]], i)
                   /\ cache' = IF cache # "pending" THEN cache
                               ELSE IF outcome.kind = "thrown" THEN NoCache
                               ELSE "response"
         [] net[i].via = "cache" ->
               \E outcome \in {o \in LoadOutcomes : o.kind # "thrown"} :
                   /\ panel' = LoadSettled(panel, outcome)
                   /\ net' = Remove(net, i)
                   /\ UNCHANGED cache
         [] OTHER ->
               /\ net[i].outcome # NoOutcome
               /\ panel' = LoadSettled(panel, net[i].outcome)
               /\ net' = Remove(net, i)
               /\ UNCHANGED cache
    /\ UNCHANGED serverVars

\* the ids of the rows that the optimistic change of a call has marked read
OwnRows(call) ==
    LET prev == call.previousNotifications
    IN  {prev[j].id : j \in {k \in 1..Len(prev) :
                                /\ prev[k].is_read = 0
                                /\ call.op = "markAllAsRead" \/ prev[k].id = call.id}}

\* faulty variant: the rows of the call are set unread again in the list shown
Rollback_ownOnly(p, call) ==
    [p EXCEPT !.notifications =
                  [j \in 1..Len(@) |-> IF @[j].id \in OwnRows(call)
                                       THEN [@[j] EXCEPT !.is_read = 0] ELSE @[j]],
              !.unreadCount = @ + Cardinality(OwnRows(call))]
\* faulty variant: the list is restored and the count is not
Rollback_listOnly(p, call) == [p EXCEPT !.notifications = call.previousNotifications]
\* the catch block of markAsRead and of markAllAsRead
Rollback(p, call) ==
    [p EXCEPT !.notifications = call.previousNotifications,
              !.unreadCount = call.previousUnreadCount]

\* the call of the mutation net[i] settles: the response is not looked at, and
\* only a thrown error is a failure
MutationSettled(i, outcome) ==
    /\ IF outcome = "thrown"
       THEN /\ panel' = [Rollback(panel, net[i]) EXCEPT
                            !.event = IF net[i].op = "markAsRead" THEN "markAsReadThrown"
                                      ELSE "markAllAsReadThrown"]
            /\ UNCHANGED cache
       ELSE /\ panel' = [panel EXCEPT !.event = "marked"]
            /\ cache' = InvalidatePattern(cache)
    /\ net' = Remove(net, i)
    /\ UNCHANGED serverVars

markAsRead_settled(i) ==
    /\ net[i].op = "markAsRead"
    /\ \E outcome \in MutationOutcomes : MutationSettled(i, outcome)

markAllAsRead_settled(i) ==
    /\ net[i].op = "markAllAsRead"
    /\ \E outcome \in MutationOutcomes : MutationSettled(i, outcome)

(* ------------------------------ behaviours ---------------------------- *)

\* the database before the first request: no booking, every table available
Init ==
    /\ tables = [t \in Tables |-> "available"]
    /\ bookings = <<>>
    /\ notifications = [n \in NotificationIds |-> 0]
    /\ req = [s \in Slots |-> Idle]
    /\ res = Idle
    /\ concurrent = FALSE
    /\ panel = NewPanel /\ net = <<>> /\ cache = NoCache

BookingStart(s) ==
    \/ \E u \in Users, b \in BookingBodies :
          createBooking_start(s, u, b.restaurantId, b.tableId, b.guests, b.otherFieldsValid)
    \/ \E u \in Users, id \in BookingIdChoices : cancelBooking_start(s, u, id)

BookingStep(s) ==
    \/ createBooking_getRestaurant(s)
    \/ createBooking_getTable(s)
    \/ createBooking_insert(s)
    \/ createBooking_updateTable(s)
    \/ cancelBooking_getBooking(s)
    \/ cancelBooking_updateBooking(s)
    \/ cancelBooking_updateTable(s)

\* the booking handlers, requests interleaving at their awaits
Next == \E s \in Slots : BookingStart(s) \/ BookingStep(s)

Spec == Init /\ [][Next]_vars

\* the booking handlers, each request served to its response before the next arrives
NextSerial == \E s \in Slots : (Quiet /\ BookingStart(s)) \/ BookingStep(s)

SpecSerial == Init /\ [][NextSerial]_vars

\* a database found with bookings in it, confirmed or cancelled, in which a
\* table is reserved exactly when one confirmed booking is on it and no table
\* has two
BookingRows == [user_id : Users, table_id : Tables, status : {"confirmed", "cancelled"}]
InitSynced ==
    /\ bookings \in UNION {[1..n -> BookingRows] : n \in 0..MaxBookings}
    /\ \A t \in Tables :
          Cardinality({b \in 1..Len(bookings) :
                          bookings[b].table_id = t /\ bookings[b].status = "confirmed"}) <= 1
    /\ tables = [t \in Tables |->
                    IF \E b \in 1..Len(bookings) :
                           bookings[b].table_id = t /\ bookings[b].status = "confirmed"
                    THEN "reserved" ELSE "available"]
    /\ notifications = [n \in NotificationIds |-> 0]
    /\ req = [s \in Slots |-> Idle]
    /\ res = Idle
    /\ concurrent = FALSE
    /\ panel = NewPanel /\ net = <<>> /\ cache = NoCache

\* the booking handlers served one request at a time over such a database
SpecSerialSynced == InitSynced /\ [][NextSerial]_vars

\* the notifications found when the first notification request arrives: written
\* by other processes, some read and some not
InitNotif ==
    /\ tables = [t \in Tables |-> "available"]
    /\ bookings = <<>>
    /\ notifications \in [NotificationIds -> {0, 1}]
    /\ req = [s \in Slots |-> Idle]
    /\ res = Idle
    /\ concurrent = FALSE
    /\ panel = NewPanel /\ net = <<>> /\ cache = NoCache

NotifStart(s, limits, filters) ==
    \/ \E u \in Users, l \in limits, f \in filters :
          getNotifications_start(s, u, l, f)
    \/ \E u \in Users : getUnreadCount_start(s, u)
    \/ \E u \in Users : markAllRead_start(s, u)
    \/ \E u \in Users, id \in NotificationIdChoices : markRead_start(s, u, id)

NotifStep(s) ==
    \/ getNotifications_list(s)
    \/ getNotifications_unread(s)
    \/ getNotifications_total(s)
    \/ getUnreadCount_count(s)
    \/ markAllRead_update(s)
    \/ markRead_getNotification(s)
    \/ markRead_updateNotification(s)

\* the notification handlers, requests interleaving at their awaits
NextNotif ==
    \E s \in Slots : NotifStart(s, FewLimitChoices, FewUnreadOnlyChoices) \/ NotifStep(s)

SpecNotif == InitNotif /\ [][NextNotif]_vars

\* the notification handlers, each request served to its response before the
\* next arrives
NextNotifSerial ==
    \E s \in Slots : (Quiet /\ NotifStart(s, LimitChoices, UnreadOnlyChoices)) \/ NotifStep(s)

SpecNotifSerial == InitNotif /\ [][NextNotifSerial]_vars

\* the notification handlers and the booking handlers together, requests
\* interleaving at their awaits; one body of one user and one query string
\* stand for the inputs, which no statement on notifications depends on
OneBookingBody == [restaurantId |-> 1, tableId |-> 1, guests |-> 2, otherFieldsValid |-> TRUE]
OneLimit == [kind |-> "absent", value |-> 0]

MixedStart(s) ==
    \/ NotifStart(s, {OneLimit}, {"absent"})
    \/ /\ Len(bookings) + CreatesInFlight < MaxMixedBookings
       /\ createBooking_start(s, 1, OneBookingBody.restaurantId, OneBookingBody.tableId,
                              OneBookingBody.guests, OneBookingBody.otherFieldsValid)
    \/ \E u \in Users, id \in 1..MaxMixedBookings : cancelBooking_start(s, u, id)

NextMixed == \E s \in Slots : MixedStart(s) \/ NotifStep(s) \/ BookingStep(s)

SpecMixed == InitNotif /\ [][NextMixed]_vars

\* all the routes of the router, each request served to its response before
\* the next arrives
NextRoute ==
    \E s \in Slots :
        \/ Quiet /\ RouteStart(s)
        \/ BookingStep(s)
        \/ NotifStep(s)
        \/ listBookings_getBookings(s)
        \/ getBooking_getDetails(s)

SpecRoute == Init /\ [][NextRoute]_vars

\* the component, from its mount on: user events, timer ticks and settling
\* calls in any order
NextClient ==
    \/ mount
    \/ unmount
    \/ tick
    \/ handleBellClick
    \/ closeButton
    \/ handleClickOutside
    \/ \E id \in ShownIds : markAsRead(id)
    \/ markAllAsRead
    \/ \E i \in 1..Len(net) :
          \/ loadNotifications_settled(i)
          \/ markAsRead_settled(i)
          \/ markAllAsRead_settled(i)

SpecClient == Init /\ [][NextClient]_vars

\* the component when every request of a load settles: apiCall resolves or
\* throws in the end
SpecClientSettling ==
    SpecClient /\ WF_vars(\E i \in 1..Len(net) : loadNotifications_settled(i))

(* ------------------- rejected database calls -------------------------- *)

\* faulty variant: the rejected query is taken as a query without result
getNotifications_reject_swallowed(s) ==
    /\ req[s].kind = "getNotifications"
    /\ \E q \in req[s].pending :
          getNotifications_join(s, [req[s] EXCEPT !.failed = q, !.pending = @ \ {q}])
    /\ UNCHANGED <<tables, bookings, notifications>>
\* one of the three queries is rejected: Promise.all rejects with it, whatever
\* the other two have done or will do, and the catch block answers
getNotifications_reject(s) ==
    /\ req[s].kind = "getNotifications"
    /\ \E q \in req[s].pending :
          Respond(s, [req[s] EXCEPT !.failed = q], 500,
                  "Internal server error while fetching notifications", NoData)
    /\ UNCHANGED <<tables, bookings, notifications>>

getUnreadCount_reject(s) ==
    /\ req[s].kind = "getUnreadCount" /\ req[s].pc = "count"
    /\ Respond(s, [req[s] EXCEPT !.failed = "count"], 500,
               "Internal server error while fetching unread count", NoData)
    /\ UNCHANGED <<tables, bookings, notifications>>

\* the rejected UPDATE has changed no row
markAllRead_reject(s) ==
    /\ req[s].kind = "markAllRead" /\ req[s].pc = "update"
    /\ Respond(s, [req[s] EXCEPT !.failed = "update"], 500,
               "Internal server error while marking all notifications as read", NoData)
    /\ UNCHANGED <<tables, bookings, notifications>>

markRead_reject(s) ==
    /\ req[s].kind = "markRead" /\ req[s].pc \in {"getNotification", "updateNotification"}
    /\ Respond(s, [req[s] EXCEPT !.failed = req[s].pc], 500,
               "Internal server error while marking notification as read", NoData)
    /\ UNCHANGED <<tables, bookings, notifications>>

NotifReject(s) ==
    \/ getNotifications_reject(s)
    \/ getUnreadCount_reject(s)
    \/ markAllRead_reject(s)
    \/ markRead_reject(s)

\* the notification handlers served one request at a time, over a database
\* whose calls may be rejected
NextNotifFault ==
    \E s \in Slots :
        \/ Quiet /\ NotifStart(s, LimitChoices, UnreadOnlyChoices)
        \/ NotifStep(s)
        \/ NotifReject(s)

SpecNotifFault == InitNotif /\ [][NextNotifFault]_vars

(* ------------------------ properties of the booking handlers ---------- *)

\* the statements a request is expected to have run when it succeeds
CreateWrites(r) ==
    << [op |-> "insert booking", id |-> r.data.bookingId,
        row |-> [user_id |-> r.user, table_id |-> r.tableId, status |-> "confirmed"]],
       [op |-> "update table", id |-> r.tableId, row |-> "reserved"] >>
CancelWrites(r) ==
    << [op |-> "update booking", id |-> r.id, row |-> "cancelled"],
       [op |-> "update table", id |-> r.booking.table_id, row |-> "available"] >>

\* the request of slot s takes the step
Steps(s) == req'[s] # req[s]

\* r passed validation, names an active restaurant and a table of it, asks for no
\* more guests than the table seats, and its table query found the table available
C1_Case(r) ==
    /\ r.kind = "createBooking"
    /\ r.restaurantId >= 1 /\ r.tableId >= 1 /\ r.otherFieldsValid
    /\ r.guests >= MinGuests /\ r.guests <= MaxGuests
    /\ r.restaurantId \in Restaurants /\ restaurants[r.restaurantId].is_active = 1
    /\ r.tableId \in Tables /\ TableRestaurant(r.tableId) = r.restaurantId
    /\ r.guests <= TableCapacity(r.tableId)
    /\ r.table.status = "available"

\* C1: a createBooking request that passes validation, names an active restaurant
\* and one of its tables, has guests <= capacity and finds the table available is
\* answered 201, has inserted exactly one booking row, confirmed and owned by the
\* caller, and leaves the table reserved.
C1_CreateSucceeds ==
    C1_Case(res) =>
        /\ res.status = 201
        /\ res.writes = CreateWrites(res)
        /\ res.data.bookingId \in 1..Len(bookings)
        /\ bookings[res.data.bookingId].user_id = res.user
        /\ bookings[res.data.bookingId].table_id = res.tableId
        /\ tables[res.tableId] = "reserved"

C1_Witness == C1_Case(res) /\ res.status = 201 /\ res.pc = "done"

\* C2: a createBooking request whose guests exceed the capacity of the table it
\* found is answered 400 with the capacity error and has run no statement that
\* changes a row.
C2_CapacityRejected ==
    (res.kind = "createBooking" /\ res.table # NoRow /\ res.guests > res.table.capacity) =>
        /\ res.status = 400
        /\ res.message = "Table capacity exceeded"
        /\ res.writes = <<>>

C2_Witness ==
    /\ res.kind = "createBooking" /\ res.table # NoRow
    /\ res.guests > res.table.capacity /\ res.status = 400
    /\ Len(bookings) > 0

\* C3 as stated: whenever the table found is not available, the answer is the
\* Unavailable error, and no row is changed.
C3_Original ==
    (res.kind = "createBooking" /\ res.table # NoRow /\ res.table.status # "available") =>
        /\ res.status = 400
        /\ res.message = "Table is not available"
        /\ res.writes = <<>>

\* C3: whenever the table found is not available the request is answered 400 and
\* has changed no row; the error is Unavailable when guests <= capacity, and the
\* capacity error (checked first) when guests > capacity.
C3_UnavailableRejected ==
    (res.kind = "createBooking" /\ res.table # NoRow /\ res.table.status # "available") =>
        /\ res.status = 400
        /\ res.message = IF res.guests > res.table.capacity
                         THEN "Table capacity exceeded" ELSE "Table is not available"
        /\ res.writes = <<>>

C3_Witness ==
    /\ res.kind = "createBooking" /\ res.table # NoRow
    /\ res.table.status # "available" /\ res.guests <= res.table.capacity
    /\ res.message = "Table is not available"

\* C4: a cancelBooking request that finds a confirmed booking owned by the caller
\* is answered 200, has set that booking to cancelled and its table to available,
\* and none of its steps changes another booking row.
C4_Step ==
    /\ (res'.kind = "cancelBooking" /\ res'.booking.status = "confirmed") =>
          /\ res'.status = 200
          /\ res'.booking.id = res'.id
          /\ bookings'[res'.id].user_id = res'.user
          /\ res'.writes = CancelWrites(res')
          /\ bookings'[res'.id].status = "cancelled"
          /\ tables'[bookings'[res'.id].table_id] = "available"
    /\ \A s \in Slots : (req[s].kind = "cancelBooking" /\ Steps(s)) =>
          /\ Len(bookings') = Len(bookings)
          /\ \A b \in 1..Len(bookings) : b # req[s].id => bookings'[b] = bookings[b]
          /\ \A t \in Tables : t # req[s].booking.table_id => tables'[t] = tables[t]

C4_CancelSucceeds == [][C4_Step]_vars

C4_Witness ==
    /\ res.kind = "cancelBooking" /\ res.status = 200
    /\ \E b \in 1..Len(bookings) : b # res.id /\ bookings[b].status = "confirmed"

\* C5: a cancelBooking request for a booking of the caller that was already
\* cancelled when the request arrived is answered 400 AlreadyCancelled, and none
\* of its steps changes a table status or a booking, whatever happened to the
\* table since the first cancellation.
C5_Step ==
    /\ (res'.kind = "cancelBooking" /\ res'.cancelledOnArrival) =>
          /\ res'.status = 400
          /\ res'.message = "Booking is already cancelled"
          /\ res'.writes = <<>>
    /\ \A s \in Slots : (req[s].kind = "cancelBooking" /\ req[s].cancelledOnArrival /\ Steps(s)) =>
          /\ tables' = tables
          /\ bookings' = bookings

C5_SecondCancel == [][C5_Step]_vars

\* the second cancel is answered while a later booking holds the table reserved
C5_Witness ==
    /\ res.kind = "cancelBooking" /\ res.cancelledOnArrival /\ res.status = 400
    /\ tables[res.booking.table_id] = "reserved"
    /\ \E b \in 1..Len(bookings) :
          /\ b > res.id /\ bookings[b].table_id = res.booking.table_id
          /\ bookings[b].status = "confirmed"

\* C6: a cancelBooking request whose id matches no booking of the caller is
\* answered 404 and has changed no row; only the owner's requests ever get past
\* the lookup, so no booking is cancelled by another user.
C6_NotFound ==
    /\ (res.kind = "cancelBooking"
          /\ ~(res.id \in 1..Len(bookings) /\ bookings[res.id].user_id = res.user)) =>
          /\ res.status = 404
          /\ res.writes = <<>>
    /\ (res.kind = "cancelBooking" /\ res.writes # <<>>) =>
          bookings[res.id].user_id = res.user
    /\ \A s \in Slots :
          (req[s].kind = "cancelBooking" /\ req[s].pc \in {"updateBooking", "updateTable"}) =>
              /\ req[s].id \in 1..Len(bookings)
              /\ bookings[req[s].id].user_id = req[s].user

\* the id names a confirmed booking of another user
C6_Witness ==
    /\ res.kind = "cancelBooking" /\ res.status = 404
    /\ res.id \in 1..Len(bookings)
    /\ bookings[res.id].user_id # res.user
    /\ bookings[res.id].status = "confirmed"

ConfirmedOn(t) ==
    {b \in 1..Len(bookings) : bookings[b].table_id = t /\ bookings[b].status = "confirmed"}

ConfirmedButAvailable == \E t \in Tables : ConfirmedOn(t) # {} /\ tables[t] = "available"
ReservedButUnbooked == \E t \in Tables : ConfirmedOn(t) = {} /\ tables[t] = "reserved"
DoubleBooked == \E t \in Tables : Cardinality(ConfirmedOn(t)) >= 2

Desynchronized == ConfirmedButAvailable \/ ReservedButUnbooked \/ DoubleBooked

\* the request of slot s has run the first of its two writes and not the second
BetweenWrites(s) == req[s].pc = "updateTable"

\* C7: booking status and table status get desynchronized only through the gap
\* between the two writes of a request: in every desynchronized state a request
\* is between its writes, or requests have overlapped; and overlapping requests
\* do leave the state desynchronized after all of them have been answered.
C7_DesyncOnlyByInterleaving ==
    Desynchronized => (concurrent \/ \E s \in Slots : BetweenWrites(s))

C7_Witness == Quiet /\ Desynchronized
C7_WitnessConfirmedButAvailable == Quiet /\ ConfirmedButAvailable
C7_WitnessReservedButUnbooked == Quiet /\ ReservedButUnbooked
C7_WitnessDoubleBooked == Quiet /\ DoubleBooked

(* ---------------------- properties of the notification handlers ------- *)

Owned(id, userId) == id \in NotificationIds /\ NotificationUser(id) = userId
UnreadOf(userId) == {n \in NotificationIds : NotificationUser(n) = userId /\ notifications[n] = 0}

\* C8: served alone, getNotifications with unread_only = 'true' returns only rows
\* with is_read = 0, all of them the caller's, and whatever the limit and the
\* filter, unread_count is the number of unread notifications of the caller.
C8_UnreadCount ==
    res.kind = "getNotifications" =>
        /\ res.status = 200
        /\ \A i \in 1..Len(res.data.notifications) :
              /\ Owned(res.data.notifications[i].id, res.user)
              /\ res.data.notifications[i].is_read = notifications[res.data.notifications[i].id]
              /\ res.unread_only = "true" => res.data.notifications[i].is_read = 0
        /\ res.data.unread_count = Cardinality(UnreadOf(res.user))

\* the limit cuts the list short of the unread rows, and the count still has them all
C8_Witness ==
    /\ res.kind = "getNotifications" /\ res.unread_only = "true"
    /\ Len(res.data.notifications) = 1
    /\ res.data.unread_count = 2

\* the filter is off and the list holds a read row
C8_WitnessUnfiltered ==
    /\ res.kind = "getNotifications" /\ res.unread_only # "true"
    /\ \E i \in 1..Len(res.data.notifications) : res.data.notifications[i].is_read = 1
    /\ res.data.unread_count = 1

\* C9: every markRead of a notification the caller owns is answered 200 and
\* leaves is_read = 1; when the row is already read, by an earlier or by an
\* overlapping call, the update leaves every row as it was.
C9_Step ==
    /\ (res'.kind = "markRead" /\ Owned(res'.id, res'.user)) =>
          /\ res'.status = 200
          /\ notifications'[res'.id] = 1
    /\ \A s \in Slots :
          (req[s].kind = "markRead" /\ Steps(s) /\ Owned(req[s].id, req[s].user)
              /\ notifications[req[s].id] = 1) =>
                  notifications' = notifications
    /\ \A n \in NotificationIds : notifications[n] = 1 => notifications'[n] = 1

C9_MarkReadIdempotent == [][C9_Step]_vars

\* two overlapping calls: this one arrived while the row was unread, the other
\* call marked it read first, and this one is answered 200 all the same
C9_Witness ==
    /\ res.kind = "markRead" /\ res.status = 200
    /\ res.readOnArrival = 0
    /\ res.writes[1].old = 1

\* two calls in a row: the second arrives when the row is read
C9_WitnessSequential ==
    /\ res.kind = "markRead" /\ res.status = 200
    /\ res.readOnArrival = 1

\* C10: markRead is answered 404 and has changed no row when no notification
\* has both the id and the caller as its user; otherwise its update sets
\* is_read = 1 on that row and leaves every other row as it was.
C10_Step ==
    /\ (res'.kind = "markRead" /\ ~Owned(res'.id, res'.user)) =>
          /\ res'.status = 404
          /\ res'.writes = <<>>
    /\ \A s \in Slots : (req[s].kind = "markRead" /\ Steps(s)) =>
          IF req[s].pc = "updateNotification"
          THEN /\ Owned(req[s].id, req[s].user)
               /\ notifications'[req[s].id] = 1
               /\ \A n \in NotificationIds : n # req[s].id => notifications'[n] = notifications[n]
          ELSE notifications' = notifications

C10_MarkReadFrame == [][C10_Step]_vars

\* the row is marked while another row of the caller and a row of another user
\* stay unread
C10_Witness ==
    /\ res.kind = "markRead" /\ res.status = 200 /\ res.writes[1].old = 0
    /\ \E n \in NotificationIds :
          n # res.id /\ NotificationUser(n) = res.user /\ notifications[n] = 0
    /\ \E n \in NotificationIds : NotificationUser(n) # res.user /\ notifications[n] = 0

\* the id is the unread notification of another user
C10_WitnessNotFound ==
    /\ res.kind = "markRead" /\ res.status = 404
    /\ res.id \in NotificationIds /\ notifications[res.id] = 0

\* C11: a getNotifications with unread_only = 'true' that arrives right after
\* the caller's markAllRead was answered returns an empty list and
\* unread_count = 0, while total_count still counts every notification of the
\* caller.
C11_EmptyAfterMarkAll ==
    (res.kind = "getNotifications" /\ res.follows >= 0) =>
        /\ res.status = 200
        /\ res.data.unread_count = 0
        /\ res.unread_only = "true" => res.data.notifications = <<>>
        /\ res.data.total_count =
              Cardinality({n \in NotificationIds : NotificationUser(n) = res.user})

\* the markAllRead changed two rows, and the filtered list that follows is empty
C11_Witness ==
    /\ res.kind = "getNotifications" /\ res.follows = 2
    /\ res.unread_only = "true"
    /\ res.data.notifications = <<>>
    /\ res.data.total_count = 2

\* C12: the update of markAllRead sets is_read = 1 on the unread rows of the
\* caller and on no other row: the rows of other users and the rows already
\* read stay as they were; it is answered 200 also when the caller has no
\* unread row, and then no row changes.  No other step of markAllRead writes.
C12_Step ==
    /\ res'.kind = "markAllRead" =>
          /\ res'.status = 200
          /\ \A n \in NotificationIds :
                notifications'[n] =
                    IF NotificationUser(n) = res'.user THEN 1 ELSE notifications[n]
          /\ res'.changes = Cardinality(UnreadOf(res'.user))
          /\ UnreadOf(res'.user) = {} => notifications' = notifications
    /\ \A s \in Slots :
          (req[s].kind = "markAllRead" /\ Steps(s) /\ res'.kind # "markAllRead") =>
              notifications' = notifications

C12_MarkAllFrame == [][C12_Step]_vars

\* two rows of the caller are marked while a row of another user stays unread
C12_Witness ==
    /\ res.kind = "markAllRead" /\ res.status = 200 /\ res.changes = 2
    /\ \E n \in NotificationIds : NotificationUser(n) # res.user /\ notifications[n] = 0

\* the caller had no unread row
C12_WitnessNothingUnread ==
    /\ res.kind = "markAllRead" /\ res.status = 200 /\ res.changes = 0
    /\ \E n \in NotificationIds : NotificationUser(n) = res.user

\* C13: whatever the limit parameter, the list is capped: the effective limit
\* is 50 when the parameter is absent or not a number, it never exceeds 100,
\* and the list holds no more rows than the effective limit (none when the
\* effective limit is below zero).
C13_ListCapped ==
    res.kind = "getNotifications" =>
        /\ res.limit.kind \in {"absent", "text"} => res.limitInt = DefaultLimit
        /\ res.limitInt <= MaxLimit
        /\ Len(res.data.notifications) <= (IF res.limitInt < 0 THEN 0 ELSE res.limitInt)

\* C14: getNotifications is all or error over its three queries: when one of
\* them is rejected the request is answered 500 and the response carries no
\* list and no count, whatever the other queries returned; a 200 is sent only
\* once the three of them have resolved, and carries their three results.
C14_AllOrError ==
    res.kind = "getNotifications" =>
        /\ res.status \in {200, 500}
        /\ res.failed # "none" => res.status = 500
        /\ res.status = 500 =>
              /\ res.failed \in {"list", "unread", "total"}
              /\ res.data = NoData
        /\ res.status = 200 =>
              /\ res.failed = "none"
              /\ res.pending = {}
              /\ res.data = [NoData EXCEPT !.notifications = res.list,
                                           !.unread_count = res.unreadCount,
                                           !.total_count = res.totalCount]

\* the list query and the total query had returned rows when the unread count
\* query was rejected
C14_Witness ==
    /\ res.kind = "getNotifications" /\ res.status = 500
    /\ res.failed = "unread" /\ res.pending = {"unread"}
    /\ res.list # <<>> /\ res.totalCount > 0
    /\ res.data = NoData

\* the first query to settle is rejected
C14_WitnessFirstRejected ==
    /\ res.kind = "getNotifications" /\ res.status = 500
    /\ res.pending = {"list", "unread", "total"}

\* C19: served alone on the same rows, the legacy getUnreadCount and the
\* consolidated getNotifications report the same number: the count of the
\* legacy endpoint is what the unread query of getNotifications gives on the
\* state, and the unread_count of getNotifications is what the query of the
\* legacy endpoint gives.
C19_SameCount ==
    /\ res.kind = "getUnreadCount" =>
          /\ res.status = 200
          /\ res.data.count = CountUnread(res.user)
    /\ res.kind = "getNotifications" =>
          res.data.unread_count = LegacyCountUnread(res.user)

\* the caller has an unread row and a read row, and another user has an
\* unread row
C19_Witness ==
    /\ res.kind = "getUnreadCount" /\ res.data.count = 1
    /\ \E n \in NotificationIds : NotificationUser(n) = res.user /\ notifications[n] = 1
    /\ \E n \in NotificationIds : NotificationUser(n) # res.user /\ notifications[n] = 0

\* the body of the createBooking request r breaks a rule of the validation
Invalid(r) ==
    \/ r.restaurantId < 1
    \/ r.tableId < 1
    \/ r.guests < MinGuests \/ r.guests > MaxGuests
    \/ ~r.otherFieldsValid

\* C20: a createBooking whose body fails validation (guests = 21 or 0, say) is
\* answered 400 'Validation failed' in the step of its arrival, before its
\* handler reaches a database call: it has read no row, run no statement, and
\* bookings and tables are as they were; no request with such a body is ever
\* waiting for the database.
C20_Step ==
    /\ (res'.kind = "createBooking" /\ Invalid(res')) =>
          /\ res'.status = 400 /\ res'.message = "Validation failed"
          /\ res'.data = NoData
          /\ res'.table = NoRow /\ res'.writes = <<>>
          /\ req' = req
          /\ bookings' = bookings /\ tables' = tables
    /\ \A s \in Slots : req'[s].kind = "createBooking" => ~Invalid(req'[s])

C20_ValidationFirst == [][C20_Step]_vars

\* guests = 21 is rejected while another request is between its two writes
C20_Witness ==
    /\ res.kind = "createBooking" /\ res.guests = MaxGuests + 1
    /\ res.status = 400 /\ res.message = "Validation failed"
    /\ \E s \in Slots : BetweenWrites(s)

\* guests = 0 is rejected
C20_WitnessZero ==
    /\ res.kind = "createBooking" /\ res.guests = 0
    /\ res.status = 400 /\ res.message = "Validation failed"

\* the requests being served and the request just answered
Requests == {req[s] : s \in Slots} \cup {res}

\* C15: GET /notifications is always handled by getNotifications and
\* GET /notifications/unread-count by getUnreadCount; the handler of GET /:id
\* never gets a request whose path is one of the two; and every GET route whose
\* path starts with the literal notifications is registered ahead of GET /:id.
C15_RoutePrecedence ==
    /\ \A r \in Requests :
          /\ (r.method = "GET" /\ r.path = <<"notifications">>) =>
                r.kind = "getNotifications"
          /\ (r.method = "GET" /\ r.path = <<"notifications", "unread-count">>) =>
                r.kind = "getUnreadCount"
          /\ r.kind = "getBooking" =>
                r.path \notin {<<"notifications">>, <<"notifications", "unread-count">>}
    /\ \A i, j \in 1..Len(Routes) :
          (/\ Routes[i].method = "GET" /\ Routes[j].method = "GET"
           /\ Len(Routes[i].pattern) >= 1 /\ Routes[i].pattern[1] = "notifications"
           /\ Routes[j].pattern = <<":id">>) => i < j

\* GET /notifications has been answered by getNotifications
C15_Witness ==
    /\ res.method = "GET" /\ res.path = <<"notifications">>
    /\ res.kind = "getNotifications" /\ res.status = 200

\* GET /notifications/unread-count has been answered by getUnreadCount
C15_WitnessUnreadCount ==
    /\ res.method = "GET" /\ res.path = <<"notifications", "unread-count">>
    /\ res.kind = "getUnreadCount" /\ res.status = 200

\* GET /1 has been answered by the handler of GET /:id with the booking
C15_WitnessGeneric ==
    /\ res.method = "GET" /\ res.path = <<"1">>
    /\ res.kind = "getBooking" /\ res.status = 200 /\ res.data.booking.id = 1

(* ------------------------ properties of the component ---------------- *)

\* the step is one of the component
ClientSteps == panel' # panel \/ net' # net

\* C16: refresh triggers that overlap make one network call between them: a
\* tick or an opening bell click makes one call to the notification-list
\* endpoint when no load is in flight, and when one is in flight it makes no
\* call and starts no load; so no two such calls are ever in flight.
C16_Step ==
    /\ NetworkLoads(net') <= 1
    /\ (ClientSteps /\ panel'.event \in {"tick", "open"}) =>
          IF LoadsInFlight # {}
          THEN net' = net
          ELSE /\ NetworkLoads(net') = NetworkLoads(net) + 1
               /\ Len(net') = Len(net) + 1

C16_OneCall == [][C16_Step]_vars

\* the bell is clicked open while the load of a tick is in flight, and that
\* load is the only call
C16_Witness ==
    /\ panel.event = "open"
    /\ \E i \in 1..Len(net) : net[i].op = "load" /\ net[i].by = "tick"
    /\ NetworkLoads(net) = 1 /\ Cardinality(LoadsInFlight) = 1

\* the timer ticks while the load of an opening click is in flight
C16_WitnessTick ==
    /\ panel.event = "tick"
    /\ \E i \in 1..Len(net) : net[i].op = "load" /\ net[i].by = "open"
    /\ NetworkLoads(net) = 1 /\ Cardinality(LoadsInFlight) = 1

\* C17: markAsRead and markAllAsRead change the list and the unread count
\* in the step that issues their call, which keeps the list and the count of
\* the moment before as its snapshot; and when the call throws, the list and
\* the count become that snapshot, both of them and whole.
C17_Step ==
    /\ (ClientSteps /\ panel'.event \in {"markAsRead", "markAllAsRead"}) =>
          /\ Len(net') = Len(net) + 1
          /\ \A i \in 1..Len(net) : net'[i] = net[i]
          /\ LET call == net'[Len(net')]
                 before == panel.notifications
                 after == panel'.notifications
             IN  /\ call.op = panel'.event /\ call.via = "network"
                 /\ call.previousNotifications = before
                 /\ call.previousUnreadCount = panel.unreadCount
                 /\ Len(after) = Len(before)
                 /\ \A j \in 1..Len(before) :
                       /\ after[j].id = before[j].id
                       /\ after[j].is_read =
                             IF call.op = "markAllAsRead" \/ before[j].id = call.id
                             THEN 1 ELSE before[j].is_read
                 /\ panel'.unreadCount =
                       IF call.op = "markAllAsRead" \/ panel.unreadCount = 0
                       THEN 0 ELSE panel.unreadCount - 1
    /\ (ClientSteps /\ panel'.event \in {"markAsReadThrown", "markAllAsReadThrown"}) =>
          \E i \in MutationsInFlight :
              /\ net' = Remove(net, i)
              /\ panel'.notifications = net[i].previousNotifications
              /\ panel'.unreadCount = net[i].previousUnreadCount

C17_OptimisticRollback == [][C17_Step]_vars

\* the call of a markAsRead has thrown and the row is unread again
C17_Witness ==
    /\ panel.event = "markAsReadThrown" /\ net = <<>>
    /\ panel.unreadCount = 2 /\ Unread(panel.notifications) = 2

\* the call of a markAllAsRead has thrown and every row is unread again
C17_WitnessAll ==
    /\ panel.event = "markAllAsReadThrown" /\ net = <<>>
    /\ panel.unreadCount = 2 /\ Unread(panel.notifications) = 2

\* C18 as stated: after a refresh that failed, by a thrown error or by a
\* response without success, the list and the unread count are those of the
\* last successful load.
C18_Original ==
    panel.event \in {"loadFailed", "loadThrown"} =>
        /\ panel.notifications = panel.loaded.notifications
        /\ panel.unreadCount = panel.loaded.unread_count

\* C18: a refresh that failed, by a thrown error or by a response without
\* success alike, leaves the list empty and the unread count 0, whatever the
\* last successful load had brought, and releases the loading flag.
C18_FailedRefreshClears ==
    panel.event \in {"loadFailed", "loadThrown"} =>
        /\ panel.notifications = <<>>
        /\ panel.unreadCount = 0
        /\ ~panel.isLoading /\ ~panel.loadingNotificationsRef

\* a response without success has emptied the list that the last successful
\* load had filled
C18_Witness ==
    /\ panel.event = "loadFailed"
    /\ panel.loaded.notifications # <<>> /\ panel.loaded.unread_count > 0
    /\ panel.notifications = <<>> /\ panel.unreadCount = 0

\* a thrown error has done the same
C18_WitnessThrown ==
    /\ panel.event = "loadThrown"
    /\ panel.loaded.notifications # <<>> /\ panel.loaded.unread_count > 0
    /\ panel.notifications = <<>> /\ panel.unreadCount = 0

\* C21: the panel is closed or open. It goes from closed to open by a bell
\* click only, and that click invalidates the cached response of the
\* notification list and then calls loadNotifications: no cached response is
\* left or used, and a load with its own network call starts unless a load is
\* in flight, which is then the refresh. It goes from open to closed by a bell
\* click, the close button or a click outside, and that starts no load and
\* leaves the calls and the cache as they are.
C21_Step ==
    /\ panel'.isOpen # panel.isOpen => panel'.event \in {"open", "close"}
    /\ (~panel.isOpen /\ panel'.isOpen) =>
          /\ panel'.event = "open"
          /\ cache' # "response"
          /\ IF panel.loadingNotificationsRef
             THEN /\ net' = net
                  /\ cache' = InvalidatePattern(cache)
                  /\ LoadsInFlight # {}
             ELSE /\ net' = Append(net, net'[Len(net')])
                  /\ net'[Len(net')].op = "load" /\ net'[Len(net')].via = "network"
                  /\ net'[Len(net')].by = "open"
                  /\ cache' = "pending"
                  /\ panel'.loadingNotificationsRef /\ panel'.isLoading
    /\ (panel.isOpen /\ ~panel'.isOpen) =>
          /\ panel'.event = "close"
          /\ net' = net /\ cache' = cache
          /\ panel'.loadingNotificationsRef = panel.loadingNotificationsRef
          /\ panel'.isLoading = panel.isLoading
          /\ panel'.notifications = panel.notifications
          /\ panel'.unreadCount = panel.unreadCount

C21_OpenRefreshes == [][C21_Step]_vars

\* the panel has been opened after a load had succeeded and left its response
\* in the cache: the load of the click makes its own call
C21_Witness ==
    /\ panel.isOpen /\ panel.event = "open"
    /\ panel.loaded # NoPayload
    /\ cache = "pending"
    /\ \E i \in 1..Len(net) : net[i].op = "load" /\ net[i].by = "open" /\ net[i].via = "network"

\* the panel has been closed with no call in flight and the cached response kept
C21_WitnessClosed ==
    /\ ~panel.isOpen /\ panel.event = "close"
    /\ net = <<>> /\ cache = "response"

\* C22: no step of a create or cancel request removes a booking row or
\* changes the user or the table of one, so the rows only grow in number; and
\* a row whose status is cancelled is cancelled after every step.
C22_Step ==
    /\ Len(bookings') >= Len(bookings)
    /\ \A b \in 1..Len(bookings) :
          /\ bookings'[b].user_id = bookings[b].user_id
          /\ bookings'[b].table_id = bookings[b].table_id
          /\ bookings[b].status = "cancelled" => bookings'[b].status = "cancelled"

C22_NeverDestroyed == [][C22_Step]_vars

\* a table booked again after its booking was cancelled: the cancelled row is
\* still there beside the new one
C22_Witness ==
    /\ Len(bookings) = 2
    /\ bookings[1].status = "cancelled" /\ bookings[2].status = "confirmed"
    /\ bookings[1].table_id = bookings[2].table_id

\* two cancellations of one booking have interleaved and both have updated it
C22_WitnessTwice ==
    /\ res.kind = "cancelBooking" /\ res.status = 200 /\ res.cancelledOnArrival = FALSE
    /\ concurrent
    /\ \E s \in Slots : /\ req[s].kind = "cancelBooking" /\ req[s].pc = "updateTable"
                        /\ req[s].id = res.id
    /\ bookings[res.id].status = "cancelled"

\* C23: the interval runs exactly while the component is mounted. The mount
\* starts the first load and the interval; a tick happens only while mounted;
\* and once unmounted the component stays so with the interval cleared: no
\* tick happens, no call is added, and the cache changes only when a call
\* made before settles.
C23_Step ==
    /\ panel'.timer <=> panel'.lifecycle = "mounted"
    /\ (panel.lifecycle = "new" /\ panel'.lifecycle # "new") =>
          /\ panel'.lifecycle = "mounted" /\ panel'.event = "mount"
          /\ Len(net') = 1 /\ net'[1].op = "load" /\ net'[1].by = "mount"
    /\ (ClientSteps /\ panel'.event = "tick") =>
          /\ panel.lifecycle = "mounted" /\ panel'.lifecycle = "mounted"
    /\ panel.lifecycle = "unmounted" =>
          /\ panel'.lifecycle = "unmounted"
          /\ panel'.event # "tick"
          /\ Len(net') <= Len(net)
          /\ cache' # cache =>
                panel'.event \in {"loaded", "loadFailed", "loadThrown", "marked"}

C23_PollingBound == [][C23_Step]_vars

\* the component was unmounted while a load was in flight, and that load has
\* settled since with the interval cleared
C23_Witness ==
    /\ panel.lifecycle = "unmounted" /\ ~panel.timer
    /\ panel.event = "loaded" /\ panel.loaded # NoPayload
    /\ net = <<>>

\* a tick of the mounted component has started a load
C23_WitnessTick ==
    /\ panel.lifecycle = "mounted" /\ panel.timer /\ panel.event = "tick"
    /\ Len(net) = 1 /\ net[1].op = "load" /\ net[1].by = "tick"

\* the component is unmounted and the load of a tick is still in flight
C23_WitnessInFlight ==
    /\ panel.lifecycle = "unmounted" /\ panel.event = "unmount"
    /\ \E i \in 1..Len(net) : net[i].op = "load" /\ net[i].by = "tick"

\* the table the request of slot s is about
TableOf(s) ==
    IF req[s].kind = "createBooking" THEN req[s].tableId ELSE req[s].booking.table_id

Synced(t) ==
    /\ tables[t] = "reserved" <=> Cardinality(ConfirmedOn(t)) = 1
    /\ Cardinality(ConfirmedOn(t)) <= 1

\* C24: with the requests served one at a time, from a database in which
\* every table is reserved exactly when one confirmed booking is on it, every
\* table stays so: whenever no request is being served each table is reserved
\* if and only if it has exactly one confirmed booking, and none has two; and
\* while a request is served the only table that may differ is the one that
\* request is between its two writes on.
C24_SerialKeepsSync ==
    \A t \in Tables :
        Synced(t) \/ \E s \in Slots : BetweenWrites(s) /\ TableOf(s) = t

\* a second confirmed booking has been made on a table after the first one on
\* it was cancelled, and the table is reserved for it
C24_Witness ==
    /\ Quiet /\ res.kind = "createBooking" /\ res.status = 201
    /\ \E t \in Tables :
          /\ tables[t] = "reserved" /\ Cardinality(ConfirmedOn(t)) = 1
          /\ \E b \in 1..Len(bookings) :
                bookings[b].table_id = t /\ bookings[b].status = "cancelled"

\* the one confirmed booking of a reserved table has been cancelled
C24_WitnessCancelled ==
    /\ Quiet /\ res.kind = "cancelBooking" /\ res.status = 200
    /\ tables[res.booking.table_id] = "available"
    /\ ConfirmedOn(res.booking.table_id) = {}

\* C25: under interleaved notification and booking requests no step turns a
\* read notification unread or removes a notification, and so no step raises
\* the number of unread notifications of any user (no handler creates one).
C25_Step ==
    /\ DOMAIN notifications' = DOMAIN notifications
    /\ \A n \in NotificationIds : notifications[n] = 1 => notifications'[n] = 1
    /\ \A u \in Users :
          Cardinality({n \in NotificationIds :
                          NotificationUser(n) = u /\ notifications'[n] = 0})
              <= Cardinality(UnreadOf(u))

C25_ReadMonotonic == [][C25_Step]_vars

\* a notification already read has been marked read again while a booking
\* request was being served, after a booking was made
C25_Witness ==
    /\ res.kind = "markRead" /\ res.status = 200 /\ res.readOnArrival = 1
    /\ notifications[res.id] = 1
    /\ Len(bookings) > 0
    /\ \E s \in Slots : req[s].kind \in {"createBooking", "cancelBooking"}

\* a mark-all-read has been answered while a list request of the same user was
\* between its queries, and it left the rows of the other users as they were
C25_WitnessMarkAll ==
    /\ res.kind = "markAllRead" /\ res.status = 200 /\ res.changes > 0
    /\ \E s \in Slots : /\ req[s].kind = "getNotifications" /\ req[s].user = res.user
                        /\ req[s].pending # {}
    /\ \E u \in Users : u # res.user /\ UnreadOf(u) # {}

Thrown == {"markAsReadThrown", "markAllAsReadThrown"}

\* a row the call has not marked is shown read and was unread when the
\* snapshot of the call was taken
OtherMarkedSince(call) ==
    \E j \in 1..Len(panel.notifications), k \in 1..Len(call.previousNotifications) :
        /\ panel.notifications[j].id \notin OwnRows(call)
        /\ panel.notifications[j].id = call.previousNotifications[k].id
        /\ panel.notifications[j].is_read = 1
        /\ call.previousNotifications[k].is_read = 0

\* C27 as stated: the catch block of a mark-read interaction undoes the
\* change of that interaction only. When its call throws as the last call in
\* flight, the list keeps its length, the rows the interaction had not marked
\* are shown as they were, a row that another mark-read call or a refresh has
\* made read since among them, and the unread count rises by no more than the
\* rows the interaction had marked.
C27_OriginalStep ==
    (Len(net) = 1 /\ net' = <<>> /\ panel'.event \in Thrown) =>
        /\ Len(panel'.notifications) = Len(panel.notifications)
        /\ \A j \in 1..Len(panel.notifications) :
              panel.notifications[j].id \notin OwnRows(net[1]) =>
                  panel'.notifications[j] = panel.notifications[j]
        /\ panel'.unreadCount <= panel.unreadCount + Cardinality(OwnRows(net[1]))

C27_Original == [][C27_OriginalStep]_vars

\* C27: the catch block of a mark-read interaction puts back the list and
\* the count of its snapshot, whatever has settled since the snapshot was
\* taken: a row that another mark-read call or a refresh has made read since
\* is shown unread again. It undoes the change of the interaction only, when
\* the list shown is still the one the interaction had left.
C27_Step ==
    (ClientSteps /\ panel'.event \in Thrown) =>
        \E i \in MutationsInFlight :
            LET call == net[i]
                prev == call.previousNotifications
                optimistic == IF call.op = "markAllAsRead"
                              THEN MarkEvery(prev) ELSE MarkOne(prev, call.id)
            IN  /\ net' = Remove(net, i)
                /\ Len(panel'.notifications) = Len(prev)
                /\ \A k \in 1..Len(prev) : panel'.notifications[k] = prev[k]
                /\ panel'.unreadCount = call.previousUnreadCount
                /\ OtherMarkedSince(call) =>
                      \E k \in 1..Len(panel'.notifications) :
                          /\ panel'.notifications[k].id \notin OwnRows(call)
                          /\ panel'.notifications[k].is_read = 0
                /\ panel.notifications = optimistic =>
                      /\ Len(panel'.notifications) = Len(panel.notifications)
                      /\ \A j \in 1..Len(panel.notifications) :
                            panel.notifications[j].id \notin OwnRows(call) =>
                                panel'.notifications[j] = panel.notifications[j]

C27_RollbackIsSnapshot == [][C27_Step]_vars

\* the call of a markAsRead has thrown after a refresh had brought every row
\* as read, nothing is in flight, and the rows are shown unread again
C27_Witness ==
    /\ panel.event = "markAsReadThrown" /\ net = <<>>
    /\ Len(panel.loaded.notifications) = NumShown /\ panel.loaded.unread_count = 0
    /\ Unread(panel.notifications) = NumShown /\ panel.unreadCount = NumShown

\* a mark-read call has just succeeded, the call of a markAsRead is the only
\* one left in flight, and the other row has become read since its snapshot
C27_WitnessOtherMarked ==
    /\ Len(net) = 1 /\ net[1].op = "markAsRead"
    /\ OtherMarkedSince(net[1])
    /\ panel.event = "marked"

\* the call of a markAllAsRead has thrown and the list shown is its snapshot,
\* not the list of the last successful load
C27_WitnessAll ==
    /\ panel.event = "markAllAsReadThrown" /\ net = <<>>
    /\ panel.loaded # NoPayload /\ panel.loaded.unread_count = 0
    /\ Unread(panel.notifications) = NumShown

\* C28: the guard of loadNotifications is set exactly while a load is in
\* flight, and so is the loading indicator; at most one load is in flight; the
\* step in which the request of a load settles, whatever the outcome, resets
\* both; and, every request settling in the end, a guard that is set is
\* released in the end, so that no later trigger is blocked for ever.
C28_OneLoad ==
    /\ Cardinality(LoadsInFlight) <= 1
    /\ panel.loadingNotificationsRef <=> LoadsInFlight # {}
    /\ panel.isLoading <=> panel.loadingNotificationsRef

C28_Step ==
    (ClientSteps /\ panel'.event \in {"loaded", "loadFailed", "loadThrown"}) =>
        /\ panel.loadingNotificationsRef /\ panel.isLoading
        /\ ~panel'.loadingNotificationsRef /\ ~panel'.isLoading
        /\ Len(net') = Len(net) - 1

C28_GuardReleased ==
    /\ []C28_OneLoad
    /\ [][C28_Step]_vars
    /\ panel.loadingNotificationsRef ~> ~panel.loadingNotificationsRef

\* the request of a load has thrown, the guard is released, and the state is
\* one in which the next trigger starts a load
C28_Witness ==
    /\ panel.event = "loadThrown"
    /\ ~panel.loadingNotificationsRef /\ ~panel.isLoading /\ LoadsInFlight = {}
    /\ panel.timer

\* a trigger after a load that had failed has started the next load
C28_WitnessNext ==
    /\ panel.event = "tick" /\ panel.loadingNotificationsRef
    /\ Cardinality(LoadsInFlight) = 1
    /\ panel.notifications = <<>> /\ panel.loaded # NoPayload

====
